---- MODULE Spec2Model ----
(***************************************************************************)
(* Model of crates/aptos-type-accessor/src/lib.rs: TypeAccessorBuilder     *)
(* (configuration, build loop, retrieve_module, parse_module) and the      *)
(* TypeAccessor it produces.                                               *)
(***************************************************************************)
EXTENDS Integers, Sequences, FiniteSets, TLC

\* ------------------------------------------------------------------------
\* Bounds of the model (observers only; the program state is not bounded).
\* ------------------------------------------------------------------------
\* The per-identifier fetch counter saturates at MaxCount.
MaxCount == 2
\* The recorded fetch log keeps the first MaxLog calls.
MaxLog == 3
\* Longest Vec handed to lookup_modules / add_modules.
MaxVec == 2

\* ------------------------------------------------------------------------
\* Data model: ModuleId, MoveType, MoveModule
\* ------------------------------------------------------------------------
\* ModuleId is the pair (address, name); addresses and names are coded as
\* naturals so that the derived Ord (address first, then name) is computable.
ModuleId(address, name) == <<address, name>>

A == ModuleId(1, 1)
B == ModuleId(1, 2)
C == ModuleId(2, 1)

Ids == {A, B, C}

\* The derived ordering of ModuleId used by BTreeSet / BTreeMap.
ModuleIdLess(x, y) == x[1] < y[1] \/ (x[1] = y[1] /\ x[2] < y[2])

\* Faulty variant of First: the largest key is popped (pop_last).
Last(S) == CHOOSE x \in S : \A y \in S : x = y \/ ModuleIdLess(y, x)

\* BTreeSet::pop_first / BTreeMap::pop_first yield the smallest key.
First(S) == CHOOSE x \in S : \A y \in S : x = y \/ ModuleIdLess(x, y)

\* MoveType variants.
U64 == [tag |-> "U64"]
GenericTypeParam(i) == [tag |-> "GenericTypeParam", index |-> i]
Vector(t) == [tag |-> "Vector", items |-> t]
Reference(m, t) == [tag |-> "Reference", mutable |-> m, to |-> t]
Struct(id, struct_name, targs) ==
    [tag |-> "Struct", address |-> id[1], module |-> id[2],
     name |-> struct_name, generic_type_params |-> targs]

Field(n, t) == [name |-> n, typ |-> t]
MoveStruct(n, fs) == [name |-> n, fields |-> fs]
MoveModule(id, structs) == [address |-> id[1], name |-> id[2], structs |-> structs]

\* Module definitions used as inputs.
A_vecB == MoveModule(A, << MoveStruct("S", << Field("f", Vector(Struct(B, "T", <<>>))) >>) >>)
A_self == MoveModule(A, << MoveStruct("S",
              << Field("f", Reference(FALSE, Vector(Struct(A, "S", <<>>)))) >>) >>)
A_B    == MoveModule(A, << MoveStruct("S", << Field("f", Struct(B, "T", <<>>)) >>) >>)
A_BC   == MoveModule(A, << MoveStruct("S", << Field("f", Struct(B, "T", <<>>)),
                                                Field("g", Struct(C, "U", <<>>)) >>) >>)
B_leaf == MoveModule(B, << MoveStruct("T", << Field("g", U64) >>) >>)
B_backA == MoveModule(B, << MoveStruct("T", << Field("g", Struct(A, "S", <<>>)) >>) >>)
B_toC == MoveModule(B, << MoveStruct("T", << Field("g", Vector(Struct(C, "U", <<>>))) >>) >>)
C_leaf == MoveModule(C, << MoveStruct("U", <<>>),
                           MoveStruct("V", << Field("k", GenericTypeParam(0)),
                                              Field("m", Reference(TRUE, U64)) >>) >>)

\* What the Module Source + decoder may hold for each identifier.
ChainDefs(id) == IF id = A THEN {A_vecB, A_self, A_B}
                 ELSE IF id = B THEN {B_leaf, B_backA, B_toC}
                 ELSE {C_leaf}

Chains == { ch \in [Ids -> {A_vecB, A_self, A_B, B_leaf, B_backA, B_toC, C_leaf}] :
              \A id \in Ids : ch[id] \in ChainDefs(id) }

\* Modules a caller may hand to add_module / add_modules.
SeedDefs == {A_B, A_self, B_leaf, C_leaf}

\* Behaviour of the source for one build: no fault, or one identifier whose
\* fetch fails, or one identifier whose bytes do not deserialize.
NoFault == [kind |-> "none", id |-> A]
Faults == {NoFault} \cup { [kind |-> k, id |-> i] : k \in {"fetch", "decode"}, i \in {A, B} }

\* Sequences over S of length at most n.
SeqsUpTo(S, n) == UNION { [1..k -> S] : k \in 0..n }

\* ------------------------------------------------------------------------
\* Ordered maps (BTreeMap) as functions
\* ------------------------------------------------------------------------
EmptyMap == [k \in {} |-> 0]
Put(m, key, val) == [k \in DOMAIN m \cup {key} |-> IF k = key THEN val ELSE m[k]]
Remove(m, key) == [k \in DOMAIN m \ {key} |-> m[k]]
ModuleIdOf(module) == ModuleId(module.address, module.name)

\* ------------------------------------------------------------------------
\* parse_module (lib.rs 147-208)
\* ------------------------------------------------------------------------
\* Faulty variant of pushed: a Vector is treated as a leaf.
pushed_no_vector(typ) ==
    IF typ.tag = "Reference" THEN << typ.to >> ELSE << >>

\* Faulty variant of pushed: a Reference is treated as a leaf.
pushed_no_reference(typ) ==
    IF typ.tag = "Vector" THEN << typ.items >> ELSE << >>

\* Faulty variant of pushed: only a shared reference is followed.
pushed_shared_only(typ) ==
    IF typ.tag = "Vector" THEN << typ.items >>
    ELSE IF typ.tag = "Reference" /\ ~typ.mutable THEN << typ.to >>
    ELSE << >>

\* The match on one type popped from the work-list: the types it pushes ...
pushed(typ) ==
    IF typ.tag = "Vector" THEN << typ.items >>
    ELSE IF typ.tag = "Reference" THEN << typ.to >>
    ELSE << >>

\* ... and the module identifiers it inserts into modules_to_retrieve.
discovered(typ) ==
    IF typ.tag = "Struct" THEN { ModuleId(typ.address, typ.module) } ELSE {}

\* while let Some(typ) = types_to_resolve.pop(): the Vec is used as a stack,
\* types_seen guards against expanding the same type twice.
RECURSIVE resolve_types(_, _, _)
resolve_types(types_to_resolve, types_seen, found) ==
    IF types_to_resolve = << >> THEN found
    ELSE LET n    == Len(types_to_resolve)
             typ  == types_to_resolve[n]
             rest == SubSeq(types_to_resolve, 1, n - 1)
         IN IF typ \in types_seen
            THEN resolve_types(rest, types_seen, found)
            ELSE resolve_types(rest \o pushed(typ), types_seen \cup {typ},
                               found \cup discovered(typ))

\* The field loop of one struct: every field type is pushed on the work-list.
field_types(fields) == [i \in 1..Len(fields) |-> fields[i].typ]

\* Faulty variant of struct_modules: the recurse flag is not consulted.
struct_modules_always(fields, self_recurse) ==
    resolve_types(field_types(fields), {}, {})

\* The modules one struct contributes: nothing unless self.recurse.
struct_modules(fields, self_recurse) ==
    IF self_recurse THEN resolve_types(field_types(fields), {}, {}) ELSE {}

\* Faulty variant of record_fields: a reference is recorded as the type it
\* refers to.
RECURSIVE record_fields_strip(_, _, _, _)
record_fields_strip(structs_info, struct_name, fields, i) ==
    IF i > Len(fields) THEN structs_info
    ELSE LET old == IF struct_name \in DOMAIN structs_info
                    THEN structs_info[struct_name] ELSE EmptyMap
             typ == IF fields[i].typ.tag = "Reference"
                    THEN fields[i].typ.to ELSE fields[i].typ
         IN record_fields_strip(Put(structs_info, struct_name,
                                    Put(old, fields[i].name, typ)),
                                struct_name, fields, i + 1)

\* Faulty variant of record_fields: each field replaces the map of its struct.
RECURSIVE record_fields_last_only(_, _, _, _)
record_fields_last_only(structs_info, struct_name, fields, i) ==
    IF i > Len(fields) THEN structs_info
    ELSE record_fields_last_only(
             Put(structs_info, struct_name, Put(EmptyMap, fields[i].name, fields[i].typ)),
             struct_name, fields, i + 1)

\* The field loop of one struct: structs_info.entry(name).or_insert_with(new)
\* .insert(field.name, field.typ), field after field.
RECURSIVE record_fields(_, _, _, _)
record_fields(structs_info, struct_name, fields, i) ==
    IF i > Len(fields) THEN structs_info
    ELSE LET old == IF struct_name \in DOMAIN structs_info
                    THEN structs_info[struct_name] ELSE EmptyMap
         IN record_fields(Put(structs_info, struct_name,
                              Put(old, fields[i].name, fields[i].typ)),
                          struct_name, fields, i + 1)

RECURSIVE parse_structs(_, _, _, _, _)
parse_structs(structs, i, structs_info, found, self_recurse) ==
    IF i > Len(structs) THEN [structs_info |-> structs_info, modules_to_retrieve |-> found]
    ELSE parse_structs(structs, i + 1,
                       record_fields(structs_info, structs[i].name, structs[i].fields, 1),
                       found \cup struct_modules(structs[i].fields, self_recurse),
                       self_recurse)

parse_module(module, self_recurse) ==
    parse_structs(module.structs, 1, EmptyMap, {}, self_recurse)

\* ------------------------------------------------------------------------
\* retrieve_module (lib.rs 122-145)
\* ------------------------------------------------------------------------
\* Errors are anyhow errors; the kinds below name the four messages of the
\* crate: the two bail! of build and the two context(..) of retrieve_module,
\* which carry the module identifier.
Err(kind, id) == [ok |-> FALSE, error |-> kind, id |-> id]
Ok(value) == [ok |-> TRUE, value |-> value]

\* Faulty variant of retrieve_module: a failed fetch is swallowed and an empty
\* module is handed back.
retrieve_module_swallow_fetch(module_id, src, flt) ==
    IF flt.kind = "fetch" /\ flt.id = module_id
    THEN Ok(MoveModule(module_id, << >>))
    ELSE IF flt.kind = "decode" /\ flt.id = module_id
    THEN Err("ModuleDecodeFailed", module_id)
    ELSE Ok(src[module_id])

\* Faulty variant of retrieve_module: both failures carry the fetch context.
retrieve_module_one_context(module_id, src, flt) ==
    IF flt.kind \in {"fetch", "decode"} /\ flt.id = module_id
    THEN Err("ModuleFetchFailed", module_id)
    ELSE Ok(src[module_id])

\* get_account_module_bcs(..).await.context("Failed to get module ..")?
\* followed by CompiledModule::deserialize(..).context("Failed to deserialize
\* module ..")?.into()
retrieve_module(module_id, src, flt) ==
    IF flt.kind = "fetch" /\ flt.id = module_id
    THEN Err("ModuleFetchFailed", module_id)
    ELSE IF flt.kind = "decode" /\ flt.id = module_id
    THEN Err("ModuleDecodeFailed", module_id)
    ELSE Ok(src[module_id])

\* ------------------------------------------------------------------------
\* build: the two checks before the loop (lib.rs 78-83)
\* ------------------------------------------------------------------------
\* Faulty variant of validate: an attached client passes the first check.
validate_client_passes(to_retrieve, mods, client) ==
    IF to_retrieve = {} /\ DOMAIN mods = {} /\ ~client THEN "EmptyInput"
    ELSE IF to_retrieve # {} /\ ~client THEN "MissingSource"
    ELSE "ok"

\* Faulty variant of validate: supplied modules pass the second check.
validate_modules_pass(to_retrieve, mods, client) ==
    IF to_retrieve = {} /\ DOMAIN mods = {} THEN "EmptyInput"
    ELSE IF to_retrieve # {} /\ DOMAIN mods = {} /\ ~client THEN "MissingSource"
    ELSE "ok"

validate(to_retrieve, mods, client) ==
    IF to_retrieve = {} /\ DOMAIN mods = {} THEN "EmptyInput"
    ELSE IF to_retrieve # {} /\ ~client THEN "MissingSource"
    ELSE "ok"

\* self.modules.contains_key(&module_id) (lib.rs 97)
already_known(mods, module_id) == module_id \in DOMAIN mods

\* ------------------------------------------------------------------------
\* State
\* ------------------------------------------------------------------------
VARIABLES
    modules_to_retrieve,  \* self.modules_to_retrieve : BTreeSet<ModuleId>
    modules,              \* self.modules : BTreeMap<ModuleId, MoveModule>
    recurse,              \* self.recurse
    rest_client,          \* self.rest_client.is_some()
    field_info,           \* the local field_info of build
    pc,                   \* position of the builder / of the build future
    in_flight,            \* << id >> while retrieve_module(id) is awaited, else << >>
    outcome,              \* what build returned: pending, ok, err or panic
    type_accessor,        \* << TypeAccessor >> once build returned Ok, else << >>
    chain,                \* what the REST endpoint serves, per identifier
    fault,                \* which call of the endpoint fails, if any
    fetch_count,          \* observer: calls of get_account_module_bcs per identifier
    fetch_log,            \* observer: the first MaxLog identifiers requested
    seed_lookups,         \* observer: modules_to_retrieve when build was called
    seed_modules,         \* observer: modules when build was called
    walked,               \* observer: identifiers parse_module has been run on
    phase_log,            \* observer: identifiers requested in the current retrieval phase
    cancelled,            \* environment: the surrounding context has been cancelled
    w_pc,                 \* position inside one call of parse_module, "idle" outside
    w_module,             \* the `module` argument of that call
    w_recurse,            \* self.recurse during that call
    w_i,                  \* index of `struc` in module.structs
    w_j,                  \* index of `field` in struc.fields
    types_to_resolve,     \* the Vec types_to_resolve of the current struct
    types_seen,           \* the HashSet types_seen of the current struct
    structs_info,         \* the local structs_info of parse_module
    found,                \* the local modules_to_retrieve of parse_module
    expanded,             \* observer: types matched (lib.rs 185) for the current struct
    discards,             \* observer: pops dropped by the types_seen check (lib.rs 178-180)
    seed_calls,           \* the configuration calls a caller chains on the builder
    seed_k                \* index of the next of these calls

vars == << modules_to_retrieve, modules, recurse, rest_client, field_info, pc,
           in_flight, outcome, type_accessor, chain, fault, fetch_count,
           fetch_log, seed_lookups, seed_modules, walked, phase_log, cancelled,
           w_pc, w_module, w_recurse, w_i, w_j, types_to_resolve, types_seen,
           structs_info, found, expanded, discards, seed_calls, seed_k >>

builder == << modules_to_retrieve, modules, recurse, rest_client >>
observers == << fetch_count, fetch_log, seed_lookups, seed_modules, walked, phase_log >>
environment == << chain, fault, cancelled >>
script == << seed_calls, seed_k >>
walker == << w_pc, w_module, w_recurse, w_i, w_j, types_to_resolve, types_seen,
            structs_info, found, expanded, discards >>

Pending == [status |-> "pending", error |-> "none", id |-> << >>]
Returned(index) == [status |-> "ok", error |-> "none", id |-> << >>]
Failed(kind, id) == [status |-> "err", error |-> kind, id |-> id]
Panicked == [status |-> "panic", error |-> "none", id |-> << >>]

\* TypeAccessor::new (lib.rs 231-235)
TypeAccessor_new(info) == [field_info |-> info]

\* TypeAccessorBuilder::new (lib.rs 25-32), in front of some endpoint.
Init ==
    /\ modules_to_retrieve = {}
    /\ modules = EmptyMap
    /\ recurse = TRUE
    /\ rest_client = FALSE
    /\ field_info = EmptyMap
    /\ pc = "config"
    /\ in_flight = << >>
    /\ outcome = Pending
    /\ type_accessor = << >>
    /\ chain \in Chains
    /\ fault \in Faults
    /\ fetch_count = [id \in Ids |-> 0]
    /\ fetch_log = << >>
    /\ seed_lookups = {}
    /\ seed_modules = EmptyMap
    /\ walked = {}
    /\ phase_log = << >>
    /\ cancelled = FALSE
    /\ w_pc = "idle"
    /\ w_module = MoveModule(A, << >>)
    /\ w_recurse = TRUE
    /\ w_i = 0
    /\ w_j = 0
    /\ types_to_resolve = << >>
    /\ types_seen = {}
    /\ structs_info = EmptyMap
    /\ found = {}
    /\ expanded = << >>
    /\ discards = 0
    /\ seed_calls = << >>
    /\ seed_k = 1

\* ------------------------------------------------------------------------
\* Configuration (lib.rs 38-75)
\* ------------------------------------------------------------------------
Range(seq) == { seq[i] : i \in 1..Len(seq) }

\* Faulty variant of insert_all: an identifier already present keeps its module.
RECURSIVE insert_all_keep_first(_, _, _)
insert_all_keep_first(mods, new, i) ==
    IF i > Len(new) THEN mods
    ELSE insert_all_keep_first(
             IF ModuleIdOf(new[i]) \in DOMAIN mods THEN mods
             ELSE Put(mods, ModuleIdOf(new[i]), new[i]),
             new, i + 1)

RECURSIVE insert_all(_, _, _)
insert_all(mods, new, i) ==
    IF i > Len(new) THEN mods
    ELSE insert_all(Put(mods, ModuleIdOf(new[i]), new[i]), new, i + 1)

set_rest_client ==
    /\ pc = "config"
    /\ rest_client' = TRUE
    /\ UNCHANGED << modules_to_retrieve, modules, recurse, field_info, pc, in_flight,
                    outcome, type_accessor, environment, observers, walker, script >>

lookup_modules(module_ids) ==
    /\ pc = "config"
    /\ modules_to_retrieve' = modules_to_retrieve \cup Range(module_ids)
    /\ UNCHANGED << modules, recurse, rest_client, field_info, pc, in_flight,
                    outcome, type_accessor, environment, observers, walker, script >>

lookup_module(module_id) == lookup_modules(<< module_id >>)

add_modules(new) ==
    /\ pc = "config"
    /\ modules' = insert_all(modules, new, 1)
    /\ UNCHANGED << modules_to_retrieve, recurse, rest_client, field_info, pc, in_flight,
                    outcome, type_accessor, environment, observers, walker, script >>

add_module(module) == add_modules(<< module >>)

do_not_recurse ==
    /\ pc = "config"
    /\ recurse' = FALSE
    /\ UNCHANGED << modules_to_retrieve, modules, rest_client, field_info, pc, in_flight,
                    outcome, type_accessor, environment, observers, walker, script >>

\* ------------------------------------------------------------------------
\* build (lib.rs 77-120), one action per step of the future
\* ------------------------------------------------------------------------
\* Faulty variant of build: the builder is not consumed, build can be called
\* again after it returned.
build_not_consuming ==
    /\ pc \in {"config", "done"}
    /\ seed_lookups' = modules_to_retrieve
    /\ seed_modules' = modules
    /\ field_info' = EmptyMap
    /\ LET v == validate(modules_to_retrieve, modules, rest_client)
       IN IF v = "ok"
          THEN pc' = "loop" /\ outcome' = outcome
          ELSE pc' = "failed" /\ outcome' = Failed(v, << >>)
    /\ UNCHANGED << builder, in_flight, type_accessor, environment,
                    fetch_count, fetch_log, walked, phase_log, walker, script >>

\* Entry: the two checks, then the empty field_info.
build ==
    /\ pc = "config"
    /\ seed_lookups' = modules_to_retrieve
    /\ seed_modules' = modules
    /\ field_info' = EmptyMap
    /\ LET v == validate(modules_to_retrieve, modules, rest_client)
       IN IF v = "ok"
          THEN pc' = "loop" /\ outcome' = outcome
          ELSE pc' = "failed" /\ outcome' = Failed(v, << >>)
    /\ UNCHANGED << builder, in_flight, type_accessor, environment,
                    fetch_count, fetch_log, walked, phase_log, walker, script >>

\* Faulty variant of loop_head: the loop breaks as soon as modules_to_retrieve
\* is empty, whatever self.modules holds.
loop_head_early_return ==
    /\ pc = "loop"
    /\ IF modules_to_retrieve # {}
       THEN pc' = "retrieve" /\ phase_log' = << >> /\ UNCHANGED << outcome, type_accessor >>
       ELSE /\ pc' = "done"
            /\ outcome' = Returned(field_info)
            /\ type_accessor' = << TypeAccessor_new(field_info) >>
            /\ phase_log' = phase_log
    /\ UNCHANGED << builder, field_info, in_flight, environment,
                    fetch_count, fetch_log, seed_lookups, seed_modules, walked, walker, script >>

\* Faulty variant of loop_head: the parse branch is tried before the retrieval
\* branch.
loop_head_walk_first ==
    /\ pc = "loop"
    /\ IF DOMAIN modules # {}
       THEN pc' = "parse" /\ UNCHANGED << outcome, type_accessor, phase_log >>
       ELSE IF modules_to_retrieve # {}
       THEN pc' = "retrieve" /\ phase_log' = << >> /\ UNCHANGED << outcome, type_accessor >>
       ELSE /\ pc' = "done"
            /\ outcome' = Returned(field_info)
            /\ type_accessor' = << TypeAccessor_new(field_info) >>
            /\ phase_log' = phase_log
    /\ UNCHANGED << builder, field_info, in_flight, environment,
                    fetch_count, fetch_log, seed_lookups, seed_modules, walked, walker, script >>

\* Top of `loop`: pick the retrieval branch, the parse branch, or break and
\* return Ok(TypeAccessor::new(field_info)).
loop_head ==
    /\ pc = "loop"
    /\ IF modules_to_retrieve # {}
       THEN pc' = "retrieve" /\ phase_log' = << >> /\ UNCHANGED << outcome, type_accessor >>
       ELSE IF DOMAIN modules # {}
       THEN pc' = "parse" /\ UNCHANGED << outcome, type_accessor, phase_log >>
       ELSE /\ pc' = "done"
            /\ outcome' = Returned(field_info)
            /\ type_accessor' = << TypeAccessor_new(field_info) >>
            /\ phase_log' = phase_log
    /\ UNCHANGED << builder, field_info, in_flight, environment,
                    fetch_count, fetch_log, seed_lookups, seed_modules, walked, walker, script >>

\* Faulty variant of retrieve_next: the retrieval phase ends after its first
\* call to the endpoint, whatever modules_to_retrieve still holds.
retrieve_next_one_per_phase ==
    /\ pc = "retrieve"
    /\ IF modules_to_retrieve = {} \/ phase_log # << >>
       THEN /\ pc' = "loop"
            /\ UNCHANGED << modules_to_retrieve, in_flight, outcome, fetch_count,
                            fetch_log, phase_log >>
       ELSE LET module_id == First(modules_to_retrieve)
            IN /\ modules_to_retrieve' = modules_to_retrieve \ {module_id}
               /\ IF already_known(modules, module_id)
                  THEN /\ pc' = "retrieve"
                       /\ UNCHANGED << in_flight, outcome, fetch_count, fetch_log, phase_log >>
                  ELSE IF ~rest_client
                  THEN /\ pc' = "panicked"
                       /\ outcome' = Panicked
                       /\ UNCHANGED << in_flight, fetch_count, fetch_log, phase_log >>
                  ELSE /\ pc' = "await"
                       /\ in_flight' = << module_id >>
                       /\ fetch_count' = [fetch_count EXCEPT ![module_id] =
                              IF @ < MaxCount THEN @ + 1 ELSE @]
                       /\ fetch_log' = IF Len(fetch_log) < MaxLog
                                       THEN Append(fetch_log, module_id) ELSE fetch_log
                       /\ phase_log' = Append(phase_log, module_id)
                       /\ outcome' = outcome
    /\ UNCHANGED << modules, recurse, rest_client, field_info, type_accessor,
                    environment, seed_lookups, seed_modules, walked, walker, script >>

\* Faulty variant of retrieve_next: the calls of one retrieval phase are all
\* issued before the first of them is awaited.
retrieve_next_pipelined ==
    /\ pc = "retrieve"
    /\ IF modules_to_retrieve = {}
       THEN /\ pc' = "loop"
            /\ UNCHANGED << modules_to_retrieve, in_flight, outcome, fetch_count,
                            fetch_log, phase_log >>
       ELSE LET module_id == First(modules_to_retrieve)
            IN /\ modules_to_retrieve' = modules_to_retrieve \ {module_id}
               /\ IF already_known(modules, module_id)
                  THEN /\ pc' = "retrieve"
                       /\ UNCHANGED << in_flight, outcome, fetch_count, fetch_log, phase_log >>
                  ELSE IF ~rest_client
                  THEN /\ pc' = "panicked"
                       /\ outcome' = Panicked
                       /\ UNCHANGED << in_flight, fetch_count, fetch_log, phase_log >>
                  ELSE /\ pc' = IF modules_to_retrieve \ {module_id} = {}
                                 THEN "await" ELSE "retrieve"
                       /\ in_flight' = Append(in_flight, module_id)
                       /\ fetch_count' = [fetch_count EXCEPT ![module_id] =
                              IF @ < MaxCount THEN @ + 1 ELSE @]
                       /\ fetch_log' = IF Len(fetch_log) < MaxLog
                                       THEN Append(fetch_log, module_id) ELSE fetch_log
                       /\ phase_log' = Append(phase_log, module_id)
                       /\ outcome' = outcome
    /\ UNCHANGED << modules, recurse, rest_client, field_info, type_accessor,
                    environment, seed_lookups, seed_modules, walked, walker, script >>

\* One turn of `while let Some(module_id) = self.modules_to_retrieve.pop_first()`
\* up to the await: skip a known identifier, or call the endpoint. The call
\* unwraps self.rest_client and panics when it is None.
retrieve_next ==
    /\ pc = "retrieve"
    /\ IF modules_to_retrieve = {}
       THEN /\ pc' = "loop"
            /\ UNCHANGED << modules_to_retrieve, in_flight, outcome, fetch_count,
                            fetch_log, phase_log >>
       ELSE LET module_id == First(modules_to_retrieve)
            IN /\ modules_to_retrieve' = modules_to_retrieve \ {module_id}
               /\ IF already_known(modules, module_id)
                  THEN /\ pc' = "retrieve"
                       /\ UNCHANGED << in_flight, outcome, fetch_count, fetch_log, phase_log >>
                  ELSE IF ~rest_client
                  THEN /\ pc' = "panicked"
                       /\ outcome' = Panicked
                       /\ UNCHANGED << in_flight, fetch_count, fetch_log, phase_log >>
                  ELSE /\ pc' = "await"
                       /\ in_flight' = << module_id >>
                       /\ fetch_count' = [fetch_count EXCEPT ![module_id] =
                              IF @ < MaxCount THEN @ + 1 ELSE @]
                       /\ fetch_log' = IF Len(fetch_log) < MaxLog
                                       THEN Append(fetch_log, module_id) ELSE fetch_log
                       /\ phase_log' = Append(phase_log, module_id)
                       /\ outcome' = outcome
    /\ UNCHANGED << modules, recurse, rest_client, field_info, type_accessor,
                    environment, seed_lookups, seed_modules, walked, walker, script >>

\* Faulty variant of retrieve_return: a failed call puts the identifier back
\* into modules_to_retrieve and the loop carries on.
retrieve_return_retry ==
    /\ pc = "await"
    /\ LET module_id == in_flight[1]
           r == retrieve_module(module_id, chain, fault)
       IN IF r.ok
          THEN /\ modules' = Put(modules, module_id, r.value)
               /\ modules_to_retrieve' = modules_to_retrieve
          ELSE /\ modules' = modules
               /\ modules_to_retrieve' = modules_to_retrieve \cup {module_id}
    /\ pc' = "retrieve"
    /\ in_flight' = << >>
    /\ UNCHANGED << recurse, rest_client, field_info, outcome,
                    type_accessor, environment, observers, walker, script >>

\* The awaited retrieve_module completes: `?` returns the error from build,
\* otherwise the module is inserted under the requested identifier.
retrieve_return ==
    /\ pc = "await"
    /\ LET module_id == in_flight[1]
           r == retrieve_module(module_id, chain, fault)
       IN IF r.ok
          THEN /\ modules' = Put(modules, module_id, r.value)
               /\ pc' = "retrieve"
               /\ outcome' = outcome
          ELSE /\ modules' = modules
               /\ pc' = "failed"
               /\ outcome' = Failed(r.error, r.id)
    /\ in_flight' = << >>
    /\ UNCHANGED << modules_to_retrieve, recurse, rest_client, field_info,
                    type_accessor, environment, observers, walker, script >>

\* Faulty variant of parse_next: the modules a walk discovers get an (empty)
\* entry in field_info at once.
parse_next_index_discovered ==
    /\ pc = "parse"
    /\ IF DOMAIN modules = {}
       THEN /\ pc' = "loop"
            /\ UNCHANGED << modules, field_info, modules_to_retrieve, walked >>
       ELSE LET module_id == First(DOMAIN modules)
                parsed == parse_module(modules[module_id], recurse)
            IN /\ modules' = Remove(modules, module_id)
               /\ field_info' =
                      [id \in DOMAIN field_info \cup {module_id} \cup parsed.modules_to_retrieve |->
                          IF id = module_id THEN parsed.structs_info
                          ELSE IF id \in DOMAIN field_info THEN field_info[id]
                          ELSE EmptyMap]
               /\ modules_to_retrieve' = modules_to_retrieve \cup parsed.modules_to_retrieve
               /\ walked' = walked \cup {module_id}
               /\ pc' = "parse"
    /\ UNCHANGED << recurse, rest_client, in_flight, outcome, type_accessor,
                    environment, fetch_count, fetch_log, seed_lookups, seed_modules,
                    phase_log, walker, script >>

\* One turn of `while let Some((module_id, module)) = self.modules.pop_first()`.
parse_next ==
    /\ pc = "parse"
    /\ IF DOMAIN modules = {}
       THEN /\ pc' = "loop"
            /\ UNCHANGED << modules, field_info, modules_to_retrieve, walked >>
       ELSE LET module_id == First(DOMAIN modules)
                parsed == parse_module(modules[module_id], recurse)
            IN /\ modules' = Remove(modules, module_id)
               /\ field_info' = Put(field_info, module_id, parsed.structs_info)
               /\ modules_to_retrieve' = modules_to_retrieve \cup parsed.modules_to_retrieve
               /\ walked' = walked \cup {module_id}
               /\ pc' = "parse"
    /\ UNCHANGED << recurse, rest_client, in_flight, outcome, type_accessor,
                    environment, fetch_count, fetch_log, seed_lookups, seed_modules,
                    phase_log, walker, script >>

\* The surrounding context is cancelled while the build is under way; nothing
\* in build reads this.
cancel ==
    /\ pc \in {"loop", "retrieve", "await", "parse"}
    /\ ~cancelled
    /\ cancelled' = TRUE
    /\ UNCHANGED << builder, field_info, pc, in_flight, outcome, type_accessor,
                    chain, fault, observers, walker, script >>

BuildStep == loop_head \/ retrieve_next \/ retrieve_return \/ parse_next

Next ==
    \/ set_rest_client
    \/ \E module_ids \in SeqsUpTo(Ids, MaxVec) : lookup_modules(module_ids)
    \/ \E module_id \in Ids : lookup_module(module_id)
    \/ \E new \in SeqsUpTo(SeedDefs, MaxVec) : add_modules(new)
    \/ \E module \in SeedDefs : add_module(module)
    \/ do_not_recurse
    \/ build
    \/ loop_head
    \/ retrieve_next
    \/ retrieve_return
    \/ parse_next

Spec == Init /\ [][Next]_vars

\* The build future is polled to completion and the endpoint answers.
FairSpec == Spec /\ WF_vars(BuildStep)

\* The build inside a context that may be cancelled at any moment.
CancelNext == Next \/ cancel
CancelSpec == Init /\ [][CancelNext]_vars

\* ------------------------------------------------------------------------
\* parse_module step by step (lib.rs 156-207): one call on one module
\* ------------------------------------------------------------------------
\* Longest field list of the first struct of a module handed to parse_module.
MaxFields == 2

\* Field types handed to parse_module: leaves, wrappers over leaves, nested
\* wrappers, a struct of the module itself and a struct with a type argument.
WalkTypes ==
    { U64,
      GenericTypeParam(0),
      Struct(B, "T", << >>),
      Vector(Struct(B, "T", << >>)),
      Reference(FALSE, Vector(Struct(A, "S", << >>))),
      Reference(TRUE, Struct(C, "U", << >>)),
      Struct(C, "Box", << Struct(B, "T", << >>) >>),
      Vector(Reference(TRUE, Vector(U64))) }

FieldNames == << "f", "g", "h", "k" >>

\* Field lists of up to n fields, named by position.
FieldLists(n) ==
    { [i \in 1..Len(ts) |-> Field(FieldNames[i], ts[i])] : ts \in SeqsUpTo(WalkTypes, n) }

\* Modules A handed to parse_module: a struct S, alone or followed by a
\* struct T of at most one field.
WalkModules ==
    { MoveModule(A, << MoveStruct("S", fs) >> \o tail) :
        fs \in FieldLists(MaxFields),
        tail \in {<< >>} \cup { << MoveStruct("T", gs) >> : gs \in FieldLists(1) } }

\* parse_module is entered with empty structs_info and modules_to_retrieve
\* (lib.rs 156-157); the builder around it is at rest.
WalkInit ==
    /\ modules_to_retrieve = {}
    /\ modules = EmptyMap
    /\ recurse = TRUE
    /\ rest_client = FALSE
    /\ field_info = EmptyMap
    /\ pc = "config"
    /\ in_flight = << >>
    /\ outcome = Pending
    /\ type_accessor = << >>
    /\ chain = [id \in Ids |-> IF id = A THEN A_B ELSE IF id = B THEN B_leaf ELSE C_leaf]
    /\ fault = NoFault
    /\ fetch_count = [id \in Ids |-> 0]
    /\ fetch_log = << >>
    /\ seed_lookups = {}
    /\ seed_modules = EmptyMap
    /\ walked = {}
    /\ phase_log = << >>
    /\ cancelled = FALSE
    /\ w_pc = "struct"
    /\ w_module \in WalkModules
    /\ w_recurse \in BOOLEAN
    /\ w_i = 1
    /\ w_j = 0
    /\ types_to_resolve = << >>
    /\ types_seen = {}
    /\ structs_info = EmptyMap
    /\ found = {}
    /\ expanded = << >>
    /\ discards = 0
    /\ seed_calls = << >>
    /\ seed_k = 1

\* `for struc in module.structs.into_iter()`: the next struct gets a fresh
\* types_to_resolve and types_seen; after the last one parse_module returns.
walk_struct ==
    /\ w_pc = "struct"
    /\ IF w_i > Len(w_module.structs)
       THEN /\ w_pc' = "done"
            /\ UNCHANGED << w_j, types_to_resolve, types_seen, expanded >>
       ELSE /\ w_pc' = "fields"
            /\ w_j' = 1
            /\ types_to_resolve' = << >>
            /\ types_seen' = {}
            /\ expanded' = << >>
    /\ UNCHANGED << w_module, w_recurse, w_i, structs_info, found, discards >>
    /\ UNCHANGED << builder, field_info, pc, in_flight, outcome, type_accessor,
                    environment, observers, script >>

\* `for field in struc.fields`: push the type, record it under the struct and
\* the field name; after the last field go on to `if self.recurse`.
walk_field ==
    /\ w_pc = "fields"
    /\ LET struc == w_module.structs[w_i]
           old   == IF struc.name \in DOMAIN structs_info
                    THEN structs_info[struc.name] ELSE EmptyMap
       IN IF w_j > Len(struc.fields)
          THEN /\ IF w_recurse
                  THEN w_pc' = "resolve" /\ w_i' = w_i
                  ELSE w_pc' = "struct" /\ w_i' = w_i + 1
               /\ UNCHANGED << w_j, types_to_resolve, structs_info >>
          ELSE /\ types_to_resolve' = Append(types_to_resolve, struc.fields[w_j].typ)
               /\ structs_info' = Put(structs_info, struc.name,
                                      Put(old, struc.fields[w_j].name, struc.fields[w_j].typ))
               /\ w_j' = w_j + 1
               /\ UNCHANGED << w_pc, w_i >>
    /\ UNCHANGED << w_module, w_recurse, types_seen, found, expanded, discards >>
    /\ UNCHANGED << builder, field_info, pc, in_flight, outcome, type_accessor,
                    environment, observers, script >>

\* Faulty variant of walk_type: types_seen is not consulted.
walk_type_unguarded ==
    /\ w_pc = "resolve"
    /\ IF types_to_resolve = << >>
       THEN /\ w_pc' = "struct"
            /\ w_i' = w_i + 1
            /\ UNCHANGED << types_to_resolve, types_seen, found, expanded, discards >>
       ELSE LET n    == Len(types_to_resolve)
                typ  == types_to_resolve[n]
                rest == SubSeq(types_to_resolve, 1, n - 1)
            IN /\ types_to_resolve' = rest \o pushed(typ)
               /\ types_seen' = types_seen \cup {typ}
               /\ found' = found \cup discovered(typ)
               /\ expanded' = Append(expanded, typ)
               /\ UNCHANGED << w_pc, w_i, discards >>
    /\ UNCHANGED << w_module, w_recurse, w_j, structs_info >>
    /\ UNCHANGED << builder, field_info, pc, in_flight, outcome, type_accessor,
                    environment, observers, script >>

\* Faulty variant of walk_type: a type found in types_seen is left on the
\* work-list.
walk_type_keep_seen ==
    /\ w_pc = "resolve"
    /\ IF types_to_resolve = << >>
       THEN /\ w_pc' = "struct"
            /\ w_i' = w_i + 1
            /\ UNCHANGED << types_to_resolve, types_seen, found, expanded, discards >>
       ELSE LET n    == Len(types_to_resolve)
                typ  == types_to_resolve[n]
                rest == SubSeq(types_to_resolve, 1, n - 1)
            IN IF typ \in types_seen
               THEN UNCHANGED << w_pc, w_i, types_to_resolve, types_seen, found,
                                 expanded, discards >>
               ELSE /\ types_to_resolve' = rest \o pushed(typ)
                    /\ types_seen' = types_seen \cup {typ}
                    /\ found' = found \cup discovered(typ)
                    /\ expanded' = Append(expanded, typ)
                    /\ UNCHANGED << w_pc, w_i, discards >>
    /\ UNCHANGED << w_module, w_recurse, w_j, structs_info >>
    /\ UNCHANGED << builder, field_info, pc, in_flight, outcome, type_accessor,
                    environment, observers, script >>

\* Faulty variant of walk_type: the type arguments of a struct are pushed.
walk_type_into_args ==
    /\ w_pc = "resolve"
    /\ IF types_to_resolve = << >>
       THEN /\ w_pc' = "struct"
            /\ w_i' = w_i + 1
            /\ UNCHANGED << types_to_resolve, types_seen, found, expanded, discards >>
       ELSE LET n    == Len(types_to_resolve)
                typ  == types_to_resolve[n]
                rest == SubSeq(types_to_resolve, 1, n - 1)
            IN IF typ \in types_seen
               THEN /\ types_to_resolve' = rest
                    /\ discards' = discards + 1
                    /\ UNCHANGED << w_pc, w_i, types_seen, found, expanded >>
               ELSE /\ types_to_resolve' =
                           rest \o (IF typ.tag = "Struct" THEN typ.generic_type_params
                                    ELSE pushed(typ))
                    /\ types_seen' = types_seen \cup {typ}
                    /\ found' = found \cup discovered(typ)
                    /\ expanded' = Append(expanded, typ)
                    /\ UNCHANGED << w_pc, w_i, discards >>
    /\ UNCHANGED << w_module, w_recurse, w_j, structs_info >>
    /\ UNCHANGED << builder, field_info, pc, in_flight, outcome, type_accessor,
                    environment, observers, script >>

\* One turn of `while let Some(typ) = types_to_resolve.pop()`: drop a type
\* already in types_seen, otherwise insert it and match on it; when the Vec is
\* empty the struct is finished.
walk_type ==
    /\ w_pc = "resolve"
    /\ IF types_to_resolve = << >>
       THEN /\ w_pc' = "struct"
            /\ w_i' = w_i + 1
            /\ UNCHANGED << types_to_resolve, types_seen, found, expanded, discards >>
       ELSE LET n    == Len(types_to_resolve)
                typ  == types_to_resolve[n]
                rest == SubSeq(types_to_resolve, 1, n - 1)
            IN IF typ \in types_seen
               THEN /\ types_to_resolve' = rest
                    /\ discards' = discards + 1
                    /\ UNCHANGED << w_pc, w_i, types_seen, found, expanded >>
               ELSE /\ types_to_resolve' = rest \o pushed(typ)
                    /\ types_seen' = types_seen \cup {typ}
                    /\ found' = found \cup discovered(typ)
                    /\ expanded' = Append(expanded, typ)
                    /\ UNCHANGED << w_pc, w_i, discards >>
    /\ UNCHANGED << w_module, w_recurse, w_j, structs_info >>
    /\ UNCHANGED << builder, field_info, pc, in_flight, outcome, type_accessor,
                    environment, observers, script >>

WalkNext == walk_struct \/ walk_field \/ walk_type

\* One call of parse_module on any of the modules above.
WalkSpec == WalkInit /\ [][WalkNext]_vars

\* parse_module is synchronous: once called it runs on.
WalkFairSpec == WalkSpec /\ WF_vars(WalkNext)

\* ------------------------------------------------------------------------
\* A chain of configuration calls followed by build
\* ------------------------------------------------------------------------
\* Longest chain of lookup / add calls.
MaxCalls == 2

Call(op, arg) == [op |-> op, arg |-> arg]

\* Arguments of lookup_module / lookup_modules: one identifier, an identifier
\* twice, two identifiers in either order.
LookupArgs == { << A >>, << B >>, << A, A >>, << A, B >>, << B, A >> }

\* Arguments of add_module / add_modules: one module, two definitions of the
\* same (address, name) in either order, two different modules.
AddArgs == { << A_B >>, << A_self >>, << B_leaf >>,
             << A_B, A_self >>, << A_self, A_B >>, << A_B, B_leaf >> }

\* What the endpoint may serve during such a build.
SeedChains ==
    { [id \in Ids |-> IF id = A THEN a ELSE IF id = B THEN b ELSE C_leaf] :
        a \in {A_B, A_BC}, b \in {B_leaf, B_toC} }

Calls == { Call("lookup_modules", ids) : ids \in LookupArgs }
             \cup { Call("add_modules", new) : new \in AddArgs }

\* TypeAccessorBuilder::new() about to be configured by some chain of calls,
\* in front of an endpoint whose modules reference each other without a
\* cycle: A = S{f: B::T} or S{f: B::T, g: C::U}, B = T{g: u64} or
\* T{g: vector<C::U>}.
SeedInit ==
    /\ modules_to_retrieve = {}
    /\ modules = EmptyMap
    /\ recurse = TRUE
    /\ rest_client = FALSE
    /\ field_info = EmptyMap
    /\ pc = "config"
    /\ in_flight = << >>
    /\ outcome = Pending
    /\ type_accessor = << >>
    /\ chain \in SeedChains
    /\ fault = NoFault
    /\ fetch_count = [id \in Ids |-> 0]
    /\ fetch_log = << >>
    /\ seed_lookups = {}
    /\ seed_modules = EmptyMap
    /\ walked = {}
    /\ phase_log = << >>
    /\ cancelled = FALSE
    /\ w_pc = "idle"
    /\ w_module = MoveModule(A, << >>)
    /\ w_recurse = TRUE
    /\ w_i = 0
    /\ w_j = 0
    /\ types_to_resolve = << >>
    /\ types_seen = {}
    /\ structs_info = EmptyMap
    /\ found = {}
    /\ expanded = << >>
    /\ discards = 0
    /\ seed_calls \in SeqsUpTo(Calls, MaxCalls)
    /\ seed_k = 1

\* The next call of the chain: lookup_modules extends modules_to_retrieve
\* (lib.rs 45), add_modules inserts module after module (lib.rs 56-61).
configure ==
    /\ pc = "config"
    /\ seed_k <= Len(seed_calls)
    /\ LET call == seed_calls[seed_k]
       IN IF call.op = "lookup_modules"
          THEN /\ modules_to_retrieve' = modules_to_retrieve \cup Range(call.arg)
               /\ modules' = modules
          ELSE /\ modules' = insert_all(modules, call.arg, 1)
               /\ modules_to_retrieve' = modules_to_retrieve
    /\ seed_k' = seed_k + 1
    /\ UNCHANGED << recurse, rest_client, field_info, pc, in_flight, outcome,
                    type_accessor, environment, observers, walker, seed_calls >>

SeedNext ==
    \/ configure
    \/ set_rest_client
    \/ build
    \/ loop_head
    \/ retrieve_next
    \/ retrieve_return
    \/ parse_next

SeedSpec == SeedInit /\ [][SeedNext]_vars

\* The build future is polled to completion and the endpoint answers.
SeedFairSpec == SeedSpec /\ WF_vars(BuildStep)

TypeOK ==
    /\ modules_to_retrieve \subseteq Ids
    /\ DOMAIN modules \subseteq Ids
    /\ pc \in {"config", "loop", "retrieve", "await", "parse", "done", "failed", "panicked"}
    /\ Len(in_flight) <= 1

\* ------------------------------------------------------------------------
\* Properties
\* ------------------------------------------------------------------------
Terminal == {"done", "failed", "panicked"}
NoFetch == fetch_log = << >> /\ \A id \in Ids : fetch_count[id] = 0
NoIndex == type_accessor = << >> /\ outcome.status # "ok"
Index == type_accessor[1].field_info

\* C1: build on a builder with no seed lookups and no seed modules fails with
\* EmptyInput, calls the source zero times and returns no index, whether or
\* not a client is attached or recursion is disabled.
C1_EmptyInput ==
    (pc # "config" /\ seed_lookups = {} /\ DOMAIN seed_modules = {})
        => /\ pc = "failed"
           /\ outcome = Failed("EmptyInput", << >>)
           /\ NoFetch
           /\ NoIndex

C1_Witness ==
    /\ pc = "failed" /\ outcome.error = "EmptyInput"
    /\ seed_lookups = {} /\ DOMAIN seed_modules = {}
    /\ rest_client /\ ~recurse

\* C2: build with a non-empty seed-lookup set and no client fails with
\* MissingSource, calls the source zero times and returns no index, also when
\* seed modules were supplied.
C2_MissingSource ==
    (pc # "config" /\ seed_lookups # {} /\ ~rest_client)
        => /\ pc = "failed"
           /\ outcome = Failed("MissingSource", << >>)
           /\ NoFetch
           /\ NoIndex

C2_Witness ==
    /\ pc = "failed" /\ outcome.error = "MissingSource"
    /\ seed_lookups # {} /\ DOMAIN seed_modules # {} /\ ~rest_client

\* The working source and decoder of the scenarios.
Working == fault = NoFault /\ rest_client

\* The index of the end-to-end scenario.
IndexAB ==
    Put(Put(EmptyMap, A, Put(EmptyMap, "S", Put(EmptyMap, "f", Vector(Struct(B, "T", << >>))))),
        B, Put(EmptyMap, "T", Put(EmptyMap, "g", U64)))

EndToEnd ==
    /\ chain[A] = A_vecB /\ chain[B] = B_leaf
    /\ seed_lookups = {A} /\ DOMAIN seed_modules = {}
    /\ recurse /\ Working

\* C3: with A declaring S{f: vector<B::T>} and B declaring T{g: u64}, a build
\* seeded with lookup [A], recursion enabled and a working source succeeds
\* with index[A][S] = {f: vector<B::T>} and index[B][T] = {g: u64}, and the
\* source is called exactly once for A and exactly once for B.
C3_EndToEnd ==
    (pc = "loop" /\ EndToEnd)
        ~> (/\ pc = "done"
            /\ outcome.status = "ok"
            /\ Index = IndexAB
            /\ fetch_count = [id \in Ids |-> IF id \in {A, B} THEN 1 ELSE 0]
            /\ fetch_log = << A, B >>)

C3_Witness ==
    pc = "done" /\ EndToEnd /\ Index = IndexAB /\ fetch_log = << A, B >>

\* C4: in one build the source is called at most once per identifier.
C4_FetchedAtMostOnce == \A id \in Ids : fetch_count[id] <= 1

\* The supplied module id has a field type leading to its own module.
SelfReferencing(id) ==
    id \in parse_module(seed_modules[id], TRUE).modules_to_retrieve

\* C5: a module supplied through add_module/add_modules is never fetched, also
\* when a field of another module's struct references it (stated for the
\* supplied modules that do not reference themselves, so that a violation is
\* a reference from another module).
C5_SeededNeverFetched ==
    \A id \in DOMAIN seed_modules : ~SelfReferencing(id) => fetch_count[id] = 0

FieldMapSelf == Put(EmptyMap, "f", Reference(FALSE, Vector(Struct(A, "S", << >>))))

CycleScenario ==
    /\ chain[A] = A_self
    /\ seed_lookups = {A} /\ DOMAIN seed_modules = {}
    /\ recurse /\ Working

\* C6: for A::S whose single field is a reference to a vector of A::S, build
\* with recursion enabled terminates and the field map of A::S holds exactly
\* that one field.
C6_CycleTerminates ==
    (pc = "loop" /\ CycleScenario)
        ~> (/\ pc = "done"
            /\ A \in DOMAIN Index
            /\ "S" \in DOMAIN Index[A]
            /\ Index[A]["S"] = FieldMapSelf)

Fetched == { id \in Ids : fetch_count[id] > 0 }

BoundaryScenario ==
    /\ seed_modules = Put(EmptyMap, A, A_B)
    /\ seed_lookups = {}

IndexA == Put(EmptyMap, A, Put(EmptyMap, "S", Put(EmptyMap, "f", Struct(B, "T", << >>))))

\* C7: with recursion disabled the frontier never gains a discovered
\* identifier: only seed lookups are ever fetched, the frontier is empty from
\* the first walk on, and the module keys of the returned index are the seed
\* lookups together with the seed modules. Seeding A with S{f: B::T} returns
\* an index with A's structs only and B is never fetched, with or without a
\* client.
C7_NoRecursion ==
    (pc # "config" /\ ~recurse)
        => /\ Fetched \subseteq seed_lookups
           /\ modules_to_retrieve \subseteq seed_lookups
           /\ walked # {} => modules_to_retrieve = {}
           /\ pc = "done" => DOMAIN Index = seed_lookups \cup DOMAIN seed_modules
           /\ (BoundaryScenario /\ pc \in Terminal)
                 => (pc = "done" /\ Index = IndexA /\ fetch_count[B] = 0)

C7_Witness ==
    /\ pc = "done" /\ ~recurse /\ ~rest_client
    /\ BoundaryScenario /\ Index = IndexA /\ NoFetch

\* C8: with recursion enabled and a working source, seeding module A that
\* contains S{f: B::T} returns an index with entries for A::S and B::T, and B
\* is fetched exactly once, whatever the source serves for B.
C8_Recursion ==
    (pc = "loop" /\ BoundaryScenario /\ recurse /\ Working)
        ~> (/\ pc = "done"
            /\ {A, B} \subseteq DOMAIN Index
            /\ "S" \in DOMAIN Index[A]
            /\ "T" \in DOMAIN Index[B]
            /\ fetch_count[B] = 1)

\* The failing call has been made and has returned.
FaultHit == fault.kind # "none" /\ fetch_count[fault.id] > 0 /\ pc # "await"

\* C9: when the fetch of a module fails, also one discovered transitively
\* after A was fetched and walked, the build fails with ModuleFetchFailed
\* naming that module and no index is returned.
C9_FetchFailure ==
    (fault.kind = "fetch" /\ FaultHit)
        => /\ pc = "failed"
           /\ outcome = Failed("ModuleFetchFailed", fault.id)
           /\ NoIndex

C9_Witness ==
    /\ pc = "failed" /\ outcome = Failed("ModuleFetchFailed", B)
    /\ seed_lookups = {A} /\ A \in walked /\ A \in DOMAIN field_info
    /\ fetch_count[A] = 1

\* C10: when the source returns bytes for X and the decoder fails on them,
\* the build fails with ModuleDecodeFailed naming X, X is not inserted into
\* self.modules and no index is returned.
C10_DecodeFailure ==
    (fault.kind = "decode" /\ FaultHit)
        => /\ pc = "failed"
           /\ outcome = Failed("ModuleDecodeFailed", fault.id)
           /\ outcome.error # "ModuleFetchFailed"
           /\ fault.id \notin DOMAIN modules
           /\ NoIndex

C10_Witness ==
    /\ pc = "failed" /\ outcome = Failed("ModuleDecodeFailed", A)
    /\ fetch_count[A] = 1 /\ A \notin DOMAIN modules

\* C11: every error aborts the build without retry: once the failing fetch or
\* decode has returned, the build has failed with no index, the failed
\* identifier has been requested exactly once, and from then on no source
\* call is made (also not for identifiers left in the frontier) and no module
\* is walked.
C11_AbortNoRetry ==
    /\ [](FaultHit => /\ pc = "failed"
                      /\ outcome.status = "err"
                      /\ outcome.id = fault.id
                      /\ NoIndex
                      /\ in_flight = << >>
                      /\ fetch_count[fault.id] = 1)
    /\ [][FaultHit => /\ fetch_count' = fetch_count
                      /\ fetch_log' = fetch_log
                      /\ in_flight' = in_flight
                      /\ walked' = walked
                      /\ field_info' = field_info
                      /\ modules_to_retrieve' = modules_to_retrieve
                      /\ type_accessor' = type_accessor]_vars

C11_Witness ==
    /\ pc = "failed" /\ FaultHit
    /\ modules_to_retrieve # {}
    /\ DOMAIN modules # {}
    /\ fault.id \notin modules_to_retrieve

\* C13: the build never attempts a fetch without a client: with no client
\* attached no source call is made, the build does not crash on the absent
\* handle, and once the frontier has held an identifier (seeded, or discovered
\* while walking supplied modules) the build ends with MissingSource. Stated
\* for supplied modules that do not reference themselves, so that a violation
\* is a discovery of another module.
C13_NoFetchWithoutSource ==
    (pc # "config" /\ ~rest_client /\ \A id \in DOMAIN seed_modules : ~SelfReferencing(id))
        => /\ NoFetch
           /\ pc # "panicked"
           /\ (pc \in Terminal /\ (seed_lookups # {} \/ modules_to_retrieve # {}))
                 => outcome = Failed("MissingSource", << >>)

\* The target modules of the struct references a type contains under vector
\* and reference wrappers.
RECURSIVE struct_targets(_)
struct_targets(typ) ==
    IF typ.tag = "Struct" THEN { ModuleId(typ.address, typ.module) }
    ELSE IF typ.tag = "Vector" THEN struct_targets(typ.items)
    ELSE IF typ.tag = "Reference" THEN struct_targets(typ.to)
    ELSE {}

\* The modules some struct field type of a module definition leads to.
References(module) ==
    UNION { UNION { struct_targets(module.structs[i].fields[j].typ) :
                      j \in 1..Len(module.structs[i].fields) } :
              i \in 1..Len(module.structs) }

\* The definition of a module: the one supplied by the caller, else the one
\* the source serves.
Declared(id) ==
    IF id \in DOMAIN seed_modules THEN seed_modules[id] ELSE chain[id]

ReachStep(S) == S \cup UNION { References(Declared(id)) : id \in S }

Seeds == seed_lookups \cup DOMAIN seed_modules

\* Transitive closure of the seeds (three rounds suffice for three modules).
Closure == ReachStep(ReachStep(ReachStep(Seeds)))

\* C14: when a build with recursion enabled succeeds, the module keys of the
\* index are exactly the transitive closure of the seeds under "a struct field
\* type of M holds, under vector/reference wrappers, a struct reference into
\* M2".
C14_Completeness ==
    (pc = "done" /\ recurse) => DOMAIN Index = Closure

\* seq never steps down / always steps up in the ModuleId order.
NonDescending(seq) ==
    \A i, j \in 1..Len(seq) : i < j => (seq[i] = seq[j] \/ ModuleIdLess(seq[i], seq[j]))
Ascending(seq) ==
    \A i, j \in 1..Len(seq) : i < j => ModuleIdLess(seq[i], seq[j])

\* C15 (as claimed): over the whole build, of any two source calls the earlier
\* one is for the smaller identifier (a repeated identifier is let through
\* here, so that a violation is a later call for a smaller identifier).
C15_AscendingWholeBuild == NonDescending(fetch_log)

\* C15 (amended): within one retrieval phase, a run of source calls with no
\* walk in between, the earlier call is for the smaller identifier; a later
\* phase may call for a smaller identifier than an earlier phase did.
C15_AscendingInPhase == Ascending(phase_log)

C15_Witness ==
    /\ Len(phase_log) >= 2
    /\ walked # {}
    /\ ~NonDescending(fetch_log)

\* The loop is about to call the source for the smallest frontier identifier.
AboutToFetch ==
    /\ pc = "retrieve" /\ rest_client
    /\ modules_to_retrieve # {}
    /\ ~already_known(modules, First(modules_to_retrieve))

\* C16: cancellation is checked before each fetch: when the context has been
\* cancelled before a fetch starts, the fetch is not issued and the build
\* aborts at once with Cancelled and no index.
C16_CancelBeforeFetch ==
    [][(cancelled /\ AboutToFetch)
          => /\ in_flight' = << >>
             /\ fetch_count' = fetch_count
             /\ pc' = "failed"
             /\ outcome' = Failed("Cancelled", << >>)
             /\ type_accessor' = << >>]_vars

Building == pc \in {"loop", "retrieve", "await", "parse"}

\* C18: at every instant of a build each identifier is in at most one of
\* frontier (pending fetch), self.modules (pending walk) and field_info
\* (indexed). Stated for builds whose seed lookups and supplied modules are
\* disjoint and whose supplied modules do not name themselves, so that a
\* violation arises from a reference between two modules inside the loop.
C18_Exclusive ==
    (/\ Building
     /\ seed_lookups \cap DOMAIN seed_modules = {}
     /\ \A id \in DOMAIN seed_modules : ~SelfReferencing(id))
        => /\ modules_to_retrieve \cap DOMAIN modules = {}
           /\ modules_to_retrieve \cap DOMAIN field_info = {}
           /\ DOMAIN modules \cap DOMAIN field_info = {}

\* C19 (as claimed): every walk step is taken from a state whose frontier is
\* empty.
C19_WalkOnlyOnEmptyFrontier ==
    (pc = "parse" /\ DOMAIN modules # {}) => modules_to_retrieve = {}

\* C19 (amended): a walk phase is entered, and its first module walked, only
\* from a state whose frontier is empty, and no source call is made until the
\* phase has walked every module of self.modules; later walks of the phase
\* may find in the frontier what earlier walks of the same phase discovered.
C19_PhaseEntryOnEmptyFrontier ==
    [][/\ (pc = "loop" /\ pc' = "parse") => modules_to_retrieve = {}
       /\ (pc = "parse" /\ pc' # "parse") => (DOMAIN modules = {} /\ pc' = "loop")
       /\ pc = "parse" => (in_flight' = << >> /\ fetch_count' = fetch_count)]_vars

C19_Witness ==
    /\ pc = "parse"
    /\ walked # {}
    /\ DOMAIN modules # {}
    /\ modules_to_retrieve # {}
    /\ \A id \in DOMAIN seed_modules : ~SelfReferencing(id)

\* C20: a retrieval phase removes the smallest identifier of the frontier at
\* each turn and requests that one or skips it, requests identifiers in
\* strictly ascending order, never adds to the frontier nor walks, and is left
\* for the top of the loop only with the frontier empty, so that the frontier
\* is empty when the next walk phase begins.
C20_DrainAscending ==
    [][/\ (pc = "retrieve" /\ modules_to_retrieve # {}) =>
             \E m \in modules_to_retrieve :
                 /\ \A o \in modules_to_retrieve \ {m} : ModuleIdLess(m, o)
                 /\ modules_to_retrieve' = modules_to_retrieve \ {m}
                 /\ in_flight' \in {<< >>, << m >>}
                 /\ in_flight' = << m >> =>
                        \A k \in 1..Len(phase_log) : ModuleIdLess(phase_log[k], m)
       /\ pc \in {"retrieve", "await"} =>
             /\ modules_to_retrieve' \subseteq modules_to_retrieve
             /\ walked' = walked
             /\ field_info' = field_info
       /\ pc = "await" => pc' \in {"retrieve", "failed"}
       /\ (pc = "retrieve" /\ pc' \notin {"retrieve", "await", "panicked"}) =>
             (pc' = "loop" /\ modules_to_retrieve = {})
       /\ (pc = "loop" /\ pc' = "parse") =>
             (modules_to_retrieve = {} /\ modules_to_retrieve' = {})]_vars

C20_Witness ==
    /\ pc = "parse"
    /\ modules_to_retrieve = {}
    /\ walked = {}
    /\ phase_log = << A, B, C >>
    /\ DOMAIN modules = {A, B, C}

\* C21: at most one call of the endpoint is in flight, and only while the
\* build is suspended at the await; from the start of a call to its completion
\* or failure the build changes neither modules_to_retrieve, self.modules nor
\* field_info and walks nothing, whatever the surrounding context does in the
\* meantime; the completion itself inserts the fetched module or fails.
C21_OneCallInFlight ==
    /\ [](Len(in_flight) <= 1 /\ (in_flight # << >> <=> pc = "await"))
    /\ [][/\ in_flight' # in_flight =>
                \/ (in_flight = << >> /\ pc = "retrieve" /\ Len(in_flight') = 1)
                \/ (in_flight' = << >> /\ pc = "await")
          /\ pc = "await" =>
                /\ modules_to_retrieve' = modules_to_retrieve
                /\ field_info' = field_info
                /\ walked' = walked
                /\ \/ (pc' = "await" /\ modules' = modules /\ in_flight' = in_flight)
                   \/ (pc' = "failed" /\ modules' = modules)
                   \/ (/\ pc' = "retrieve"
                       /\ DOMAIN modules' = DOMAIN modules \cup {in_flight[1]}
                       /\ \A id \in DOMAIN modules \ {in_flight[1]} :
                              modules'[id] = modules[id])]_vars

C21_Witness ==
    /\ pc = "await"
    /\ cancelled
    /\ walked # {}
    /\ DOMAIN modules # {}

\* C22: build returns a TypeAccessor only from the top of the loop with
\* modules_to_retrieve and self.modules both empty; while either holds
\* something the top of the loop goes on to retrieve or to parse.
C22_ReturnOnlyWhenDrained ==
    /\ [](pc = "done" => /\ modules_to_retrieve = {} /\ DOMAIN modules = {}
                         /\ outcome.status = "ok" /\ type_accessor # << >>)
    /\ [](type_accessor # << >> => pc = "done")
    /\ [][/\ (pc # "done" /\ pc' = "done") =>
                (pc = "loop" /\ modules_to_retrieve = {} /\ DOMAIN modules = {})
          /\ (pc = "loop" /\ (modules_to_retrieve # {} \/ DOMAIN modules # {})) =>
                (pc' \in {"retrieve", "parse"} /\ type_accessor' = << >>)]_vars

C22_Witness ==
    /\ pc = "done"
    /\ Cardinality(walked) >= 2
    /\ Fetched # {}
    /\ DOMAIN seed_modules # {}

\* The map of field name to declared type of one struct.
FieldMap(fields) ==
    [n \in { fields[i].name : i \in 1..Len(fields) } |->
        fields[CHOOSE i \in 1..Len(fields) : fields[i].name = n].typ]

\* The definitions build may have walked for an identifier: the one the
\* caller supplied and the one the endpoint served.
Sources(id) ==
    (IF id \in DOMAIN seed_modules THEN {seed_modules[id]} ELSE {})
        \cup (IF fetch_count[id] > 0 THEN {chain[id]} ELSE {})

\* C23: in the index of a successful build, under every module and for every
\* struct of its definition (supplied or served) that declares a field, the
\* entry of the struct maps exactly the declared field names to the declared
\* types, unchanged.
C23_Verbatim ==
    pc = "done" =>
        \A id \in DOMAIN Index : \E module \in Sources(id) :
            \A i \in 1..Len(module.structs) :
                Len(module.structs[i].fields) > 0 =>
                    /\ module.structs[i].name \in DOMAIN Index[id]
                    /\ Index[id][module.structs[i].name] = FieldMap(module.structs[i].fields)

C23_Witness ==
    /\ pc = "done"
    /\ DOMAIN Index = {A, C}
    /\ "V" \in DOMAIN Index[C]
    /\ Index[C]["V"] = Put(Put(EmptyMap, "k", GenericTypeParam(0)), "m", Reference(TRUE, U64))

Walked == w_pc = "done"

StructNames(module) == { module.structs[i].name : i \in 1..Len(module.structs) }

\* C24: when parse_module returns, structs_info has an entry for every struct
\* of the module, the empty map for a struct without fields, and the entry of
\* each struct is its declared field map.
C24_EveryStructHasEntry ==
    Walked =>
        /\ DOMAIN structs_info = StructNames(w_module)
        /\ \A i \in 1..Len(w_module.structs) :
               w_module.structs[i].name \in DOMAIN structs_info
                   => structs_info[w_module.structs[i].name]
                          = FieldMap(w_module.structs[i].fields)

\* C25: the set parse_module returns never holds the identifier of the module
\* it was called on.
C25_OnlyForeign ==
    Walked => ModuleIdOf(w_module) \notin found

\* C26: with self.recurse, the set parse_module returns is exactly the set of
\* modules of the Struct nodes reached from the field types through Vector and
\* Reference only; the same holds of parse_module computed in one go.
C26_DiscoveredExactly ==
    (Walked /\ w_recurse) =>
        /\ found = References(w_module)
        /\ parse_module(w_module, w_recurse).modules_to_retrieve = References(w_module)
        /\ parse_module(w_module, w_recurse).structs_info = structs_info

C26_Witness ==
    /\ Walked
    /\ w_recurse
    /\ found = {A, C}
    /\ \E i \in 1..Len(w_module.structs) : \E j \in 1..Len(w_module.structs[i].fields) :
           w_module.structs[i].fields[j].typ \in {U64, GenericTypeParam(0)}

\* Every module named anywhere in a type, type arguments included.
RECURSIVE Mentioned(_)
Mentioned(typ) ==
    IF typ.tag = "Struct"
    THEN { ModuleId(typ.address, typ.module) }
             \cup UNION { Mentioned(typ.generic_type_params[k]) :
                            k \in 1..Len(typ.generic_type_params) }
    ELSE IF typ.tag = "Vector" THEN Mentioned(typ.items)
    ELSE IF typ.tag = "Reference" THEN Mentioned(typ.to)
    ELSE {}

MentionedIn(module) ==
    UNION { UNION { Mentioned(module.structs[i].fields[j].typ) :
                      j \in 1..Len(module.structs[i].fields) } :
              i \in 1..Len(module.structs) }

Top(stack) == stack[Len(stack)]
Pop(stack) == SubSeq(stack, 1, Len(stack) - 1)

\* C27: matching a Struct or a GenericTypeParam pushes nothing on the
\* work-list, a Struct adds its own module only and a GenericTypeParam adds
\* nothing; so a module named only inside type arguments is not in the set
\* parse_module returns.
C27_NoDescentIntoArgs ==
    /\ [](Walked => \A id \in MentionedIn(w_module) \ References(w_module) : id \notin found)
    /\ [][(/\ w_pc = "resolve"
           /\ types_to_resolve # << >>
           /\ Top(types_to_resolve) \notin types_seen
           /\ Top(types_to_resolve).tag \in {"Struct", "GenericTypeParam"})
              => /\ types_to_resolve' = Pop(types_to_resolve)
                 /\ found' = found \cup
                      (IF Top(types_to_resolve).tag = "Struct"
                       THEN { ModuleId(Top(types_to_resolve).address,
                                       Top(types_to_resolve).module) }
                       ELSE {})]_vars

C27_Witness ==
    /\ Walked
    /\ w_recurse
    /\ B \in MentionedIn(w_module)
    /\ found = {C}
    /\ \E i \in 1..Len(w_module.structs) : \E j \in 1..Len(w_module.structs[i].fields) :
           w_module.structs[i].fields[j].typ = GenericTypeParam(0)

\* Every type obtained from a type by flipping the mutable flag of any of its
\* Reference nodes.
RECURSIVE Flips(_)
Flips(typ) ==
    IF typ.tag = "Vector" THEN { Vector(t) : t \in Flips(typ.items) }
    ELSE IF typ.tag = "Reference"
    THEN { Reference(m, t) : m \in BOOLEAN, t \in Flips(typ.to) }
    ELSE IF typ.tag = "Struct"
    THEN LET args == typ.generic_type_params
             pool == UNION { Flips(args[k]) : k \in 1..Len(args) }
         IN { [typ EXCEPT !.generic_type_params = as] :
                as \in { f \in [1..Len(args) -> pool] :
                           \A k \in 1..Len(args) : f[k] \in Flips(args[k]) } }
    ELSE {typ}

FlipsOfFields(fields) ==
    LET pool == UNION { { Field(fields[j].name, t) : t \in Flips(fields[j].typ) } :
                          j \in 1..Len(fields) }
    IN { gs \in [1..Len(fields) -> pool] :
           \A j \in 1..Len(fields) :
               gs[j].name = fields[j].name /\ gs[j].typ \in Flips(fields[j].typ) }

FlipsOfModule(module) ==
    LET pool == UNION { { MoveStruct(module.structs[i].name, gs) :
                            gs \in FlipsOfFields(module.structs[i].fields) } :
                          i \in 1..Len(module.structs) }
    IN { [module EXCEPT !.structs = ss] :
           ss \in { f \in [1..Len(module.structs) -> pool] :
                      \A i \in 1..Len(module.structs) :
                          /\ f[i].name = module.structs[i].name
                          /\ f[i].fields \in FlipsOfFields(module.structs[i].fields) } }

HasReference(module) ==
    \E i \in 1..Len(module.structs) : \E j \in 1..Len(module.structs[i].fields) :
        Cardinality(Flips(module.structs[i].fields[j].typ)) > 1

\* C28: the set parse_module returns for a module is the set it returns for
\* every module that differs from it in mutable flags of Reference nodes only.
C28_MutabilityIrrelevant ==
    Walked =>
        \A flipped \in FlipsOfModule(w_module) :
            parse_module(flipped, w_recurse).modules_to_retrieve = found

C28_Witness ==
    /\ Walked
    /\ w_recurse
    /\ HasReference(w_module)
    /\ Cardinality(FlipsOfModule(w_module)) >= 4
    /\ {A, C} \subseteq found

NoDuplicates(seq) == \A i, j \in 1..Len(seq) : i # j => seq[i] # seq[j]

\* C29: within one struct no type is matched twice and types_seen is the set
\* of the types matched so far, empty when the struct is entered; a popped
\* type that is in types_seen, compared as a whole nested value, is dropped
\* and nothing is pushed or recorded for it.
C29_CycleGuard ==
    /\ [](NoDuplicates(expanded) /\ types_seen = Range(expanded))
    /\ [](w_pc = "fields" => types_seen = {})
    /\ [][(/\ w_pc = "resolve"
           /\ types_to_resolve # << >>
           /\ Top(types_to_resolve) \in types_seen)
              => /\ types_to_resolve' = Pop(types_to_resolve)
                 /\ types_seen' = types_seen
                 /\ found' = found
                 /\ expanded' = expanded]_vars

C29_Witness ==
    /\ w_pc = "resolve"
    /\ w_i = 2
    /\ discards > 0
    /\ expanded = << Struct(B, "T", << >>) >>

\* C30: a call of parse_module returns, and in every struct the work-list
\* types_to_resolve is emptied.
C30_WalkerTerminates ==
    /\ (w_pc = "struct" /\ w_i = 1) ~> Walked
    /\ (w_pc = "resolve") ~> (w_pc = "resolve" /\ types_to_resolve = << >>)

C30_Witness ==
    /\ Walked
    /\ w_recurse
    /\ discards > 0
    /\ Len(w_module.structs) = 2
    /\ Cardinality(found) >= 2

Perms(n) == { p \in [1..n -> 1..n] : \A i, j \in 1..n : i # j => p[i] # p[j] }

\* Every reordering of a sequence.
Permuted(seq) == { [i \in 1..Len(seq) |-> seq[p[i]]] : p \in Perms(Len(seq)) }

\* Every module obtained from a module by reordering its structs and the
\* fields of each struct.
PermutedModules(module) ==
    LET n    == Len(module.structs)
        V(i) == { MoveStruct(module.structs[i].name, fs) :
                    fs \in Permuted(module.structs[i].fields) }
        pool == UNION { V(i) : i \in 1..n }
    IN UNION { { [module EXCEPT !.structs = ss] :
                   ss \in { f \in [1..n -> pool] : \A i \in 1..n : f[i] \in V(p[i]) } } :
               p \in Perms(n) }

\* C31: what parse_module returns for a module (the field map of each struct
\* and the set of modules to retrieve) is what it returns for every module
\* that differs from it in the order of structs and of fields only.
C31_OrderIrrelevant ==
    Walked =>
        \A permuted \in PermutedModules(w_module) :
            parse_module(permuted, w_recurse)
                = [structs_info |-> structs_info, modules_to_retrieve |-> found]

C31_Witness ==
    /\ Walked
    /\ w_recurse
    /\ Len(w_module.structs) = 2
    /\ Cardinality(PermutedModules(w_module)) = 4
    /\ Cardinality(found) >= 2
    /\ discards = 0

\* The calls made so far, by operation.
Made(op) == { k \in 1..(seed_k - 1) : seed_calls[k].op = op }

\* The identifiers passed to lookup_module / lookup_modules so far, and how
\* often each was passed.
LookedUp == UNION { Range(seed_calls[k].arg) : k \in Made("lookup_modules") }
Occurrences(id) ==
    Cardinality(UNION { { << k, a >> : a \in { b \in 1..Len(seed_calls[k].arg) :
                                                  seed_calls[k].arg[b] = id } } :
                          k \in Made("lookup_modules") })

\* C32 (first part): the frontier build starts from is the set of the
\* identifiers passed to lookup_module / lookup_modules, however often and in
\* whatever order they were passed.
FrontierIsUnion ==
    /\ pc = "config" => modules_to_retrieve = LookedUp
    /\ pc # "config" => seed_lookups = LookedUp

\* C32: the frontier at the start of build is the union of the identifiers
\* looked up, and an identifier looked up more than once is fetched at most
\* once.
C32_SeedLookupsDeduplicated ==
    /\ FrontierIsUnion
    /\ \A id \in Ids : Occurrences(id) >= 2 => fetch_count[id] <= 1

\* The modules passed to add_module / add_modules so far, in order.
RECURSIVE SuppliedUpTo(_)
SuppliedUpTo(k) ==
    IF k = 0 THEN << >>
    ELSE SuppliedUpTo(k - 1)
             \o (IF seed_calls[k].op = "add_modules" THEN seed_calls[k].arg ELSE << >>)
Supplied == SuppliedUpTo(seed_k - 1)
SuppliedIds == { ModuleIdOf(Supplied[i]) : i \in 1..Len(Supplied) }

\* The definition supplied last for an identifier.
LastSupplied(id) ==
    LET at == { i \in 1..Len(Supplied) : ModuleIdOf(Supplied[i]) = id }
    IN Supplied[CHOOSE i \in at : \A j \in at : j <= i]

SuppliedTwice(id) ==
    \E i, j \in 1..Len(Supplied) :
        /\ i < j
        /\ ModuleIdOf(Supplied[i]) = id
        /\ ModuleIdOf(Supplied[j]) = id
        /\ Supplied[i] # Supplied[j]

\* C37: self.modules holds one entry per identifier supplied, the definition
\* supplied last; build starts from these, and in the index of a build that
\* did not fetch the identifier its entry is that of the last definition.
C37_LastDefinitionWins ==
    /\ pc = "config" =>
           /\ DOMAIN modules = SuppliedIds
           /\ \A id \in SuppliedIds : modules[id] = LastSupplied(id)
    /\ pc # "config" =>
           /\ DOMAIN seed_modules = SuppliedIds
           /\ \A id \in SuppliedIds : seed_modules[id] = LastSupplied(id)
    /\ pc = "done" =>
           \A id \in SuppliedIds :
               fetch_count[id] = 0 =>
                   /\ id \in DOMAIN Index
                   /\ Index[id] = parse_module(LastSupplied(id), recurse).structs_info

C37_Witness ==
    /\ pc = "done"
    /\ SuppliedTwice(A)
    /\ Len(seed_calls) = 2
    /\ seed_calls[1].op = "add_modules"
    /\ seed_calls[2].op = "add_modules"
    /\ fetch_count[A] = 0
    /\ Index[A] = Put(EmptyMap, "S", Put(EmptyMap, "f", Struct(B, "T", << >>)))

\* C33: an identifier that is both looked up and supplied is not fetched, and
\* in the index of a successful build its entry is that of the supplied
\* definition (stated for supplied modules that do not reference themselves).
C33_LookupShortCircuited ==
    \A id \in seed_lookups \cap DOMAIN seed_modules :
        ~SelfReferencing(id) =>
            /\ fetch_count[id] = 0
            /\ pc = "done" =>
                   /\ id \in DOMAIN Index
                   /\ Index[id] = parse_module(seed_modules[id], recurse).structs_info

\* Identifiers whose fetch and decode succeeded in this build.
FetchedOk ==
    { id \in Fetched : /\ ~(fault.kind # "none" /\ fault.id = id)
                       /\ (in_flight # << id >> \/ fetch_count[id] > 1) }

\* C34: field_info is empty when the loop is entered, changes only when a
\* module of self.modules is walked, never loses a key, and its keys are
\* modules supplied by the caller or fetched and decoded in this build; a
\* returned index has a key for every module fetched and decoded.
C34_IndexGrowsByWalking ==
    /\ [](pc # "config" => DOMAIN field_info \subseteq DOMAIN seed_modules \cup FetchedOk)
    /\ [](pc = "done" => FetchedOk \subseteq DOMAIN Index)
    /\ [][/\ (pc = "config" /\ pc' # "config") => field_info' = EmptyMap
          /\ (pc # "config" /\ field_info' # field_info) =>
                /\ pc = "parse"
                /\ DOMAIN modules' # DOMAIN modules
                /\ DOMAIN field_info \subseteq DOMAIN field_info'
                /\ DOMAIN field_info' \subseteq DOMAIN field_info \cup DOMAIN modules]_vars

C34_Witness ==
    /\ pc = "done"
    /\ DOMAIN seed_modules # {}
    /\ FetchedOk \ DOMAIN seed_modules # {}
    /\ DOMAIN Index = DOMAIN seed_modules \cup FetchedOk
    /\ Cardinality(DOMAIN Index) = 3

\* C35: once build has returned a TypeAccessor nothing changes it: the builder
\* was consumed by build, so none of its operations can run, and the
\* TypeAccessor, the outcome and the map it was made from stay as returned.
C35_IndexImmutable ==
    /\ [](pc = "done" => /\ ~ENABLED Next
                         /\ type_accessor = << TypeAccessor_new(field_info) >>)
    /\ [][type_accessor # << >> =>
             /\ type_accessor' = type_accessor
             /\ outcome' = outcome
             /\ field_info' = field_info]_vars

C35_Witness ==
    /\ pc = "done"
    /\ type_accessor # << >>
    /\ Cardinality(DOMAIN Index) >= 2

\* The references between modules as the walker sees them: those of the served
\* definition and of the supplied one.
Edges(id) ==
    References(chain[id])
        \cup (IF id \in DOMAIN seed_modules THEN References(seed_modules[id]) ELSE {})
Step(S) == UNION { Edges(id) : id \in S }
Acyclic == \A id \in Ids : id \notin Step({id}) \cup Step(Step({id})) \cup Step(Step(Step({id})))

AcyclicScenario == pc # "config" /\ rest_client /\ recurse /\ fault = NoFault /\ Acyclic

\* C36 (termination part): such a build returns an index.
AcyclicTerminates == (pc = "loop" /\ AcyclicScenario) ~> (pc = "done")

\* C36: with a source that always answers, recursion enabled and no cycle and
\* no self-reference among the modules, build returns an index, having fetched
\* exactly once every module of the closure that was neither looked up nor
\* supplied by the caller.
C36_TerminatesOnAcyclic ==
    /\ AcyclicTerminates
    /\ [](pc = "done" /\ AcyclicScenario => \A id \in Closure \ Seeds : fetch_count[id] = 1)

====
